---- MODULE Spec2Model ----
(***************************************************************************)
(* The agent loop of src/main.py: a two-node graph ("agent", "tools") over *)
(* a message list with an append reducer, run by app.stream().             *)
(*                                                                         *)
(* The script only wires library parts together, so the behaviour of the   *)
(* parts it names is modelled where it names them:                         *)
(*   - StateGraph/compile/stream (lines 48-68, 76): one node runs per      *)
(*     super-step, its update is merged with the channel's reducer and     *)
(*     emitted as a stream event; stream() is called without a config, so  *)
(*     the engine's recursion limit applies: the run is stopped with       *)
(*     GraphRecursionError once more super-steps than the limit have run.  *)
(*   - ToolNode(tools) (line 46): the tool calls of the last AI message    *)
(*     are handed to a thread pool (executor.map), each call is validated  *)
(*     and run on its own worker, and the ToolMessages are returned in the *)
(*     order of the calls; an unknown tool or a failed argument validation *)
(*     becomes a ToolMessage with status "error".                          *)
(*   - model.invoke (line 43): an opaque collaborator, a function of the   *)
(*     message list that returns one AI message or raises.                 *)
(***************************************************************************)
EXTENDS Integers, Sequences, FiniteSets, TLC

VARIABLES
    messages,   \* AgentState["messages"]: the transcript
    pc,         \* node to run next: "agent", "tools", "END", or "failed"
    step,       \* super-steps the engine has executed in this run
    error,      \* exception that left app.stream(), "" if none
    events,     \* events app.stream() has yielded to the caller's for loop
    running,    \* indexes of tool calls a pool worker is executing
    outputs,    \* finished tool calls of this Act, in order of completion
    execLog,    \* ids of the calls whose tool function ran in the latest Act
                \* step, in the order run
    memo,       \* the model collaborator as a function: transcript -> outcome
    nextId,     \* next fresh tool-call identifier the model will hand out
    run,        \* 1 = first run, 2 = replay of the same input
    prev,       \* what the first run produced (replay only)
    api_key,    \* os.getenv("GOOGLE_API_KEY") after load_dotenv()
    exit_code   \* status the process exited with, -1 while it has not

vars == <<messages, pc, step, error, events, running, outputs, execLog,
          memo, nextId, run, prev, api_key, exit_code>>

\* The process environment and exit status: set at start-up only.
env == <<api_key, exit_code>>

\* ------------------------------------------------------------------ bounds

\* Largest number of tool calls the modelled collaborator puts in one reply.
MaxCalls == 2

\* The engine's recursion limit (stream() is called without a config, so the
\* library default applies; the model runs the same rule with a small limit).
RecursionLimit == 3

\* The step counter is unbounded in the program; the model stops counting
\* here (never reached while the recursion limit is enforced).
StepCap == RecursionLimit + 2

\* ------------------------------------------------------------------ values

\* Argument values of a tool call: an integer, a string (its characters), or
\* no value at all for the key.
IntV(n) == [kind |-> "int", val |-> n, text |-> <<>>]
StrV(chars) == [kind |-> "str", val |-> 0, text |-> chars]
MissingV == [kind |-> "missing", val |-> 0, text |-> <<>>]

\* The strings "one" and "108".
TextV == StrV(<<"o", "n", "e">>)
NumTextV == StrV(<<"1", "0", "8">>)

\* user_input of __main__
user_input == "What's 55 + 108"

HumanMessage(text) ==
    [type |-> "human", content |-> text, tool_calls |-> <<>>,
     tool_call_id |-> 0, name |-> "", status |-> ""]

AIMessage(text, calls) ==
    [type |-> "ai", content |-> text, tool_calls |-> calls,
     tool_call_id |-> 0, name |-> "", status |-> ""]

ToolMessage(text, callId, toolName, st) ==
    [type |-> "tool", content |-> text, tool_calls |-> <<>>,
     tool_call_id |-> callId, name |-> toolName, status |-> st]

initial_state == [messages |-> <<HumanMessage(user_input)>>]

\* tools = [adder]
tools == {"adder"}

\* ------------------------------------------------- the model collaborator

\* What the collaborator may ask for in one tool call: the registered tool
\* with well-typed arguments, the registered tool with a non-integer
\* argument, and a tool that is not registered.
PlainCall == [name |-> "adder", args |-> [a |-> IntV(55), b |-> IntV(108)]]

CallChoices ==
    { PlainCall,
      [name |-> "adder", args |-> [a |-> IntV(55), b |-> TextV]],
      [name |-> "adder", args |-> [a |-> IntV(55), b |-> NumTextV]],
      [name |-> "adder", args |-> [a |-> IntV(55), b |-> MissingV]],
      [name |-> "multiplier", args |-> [a |-> IntV(55), b |-> IntV(108)]] }

\* The replies the modelled collaborator gives: up to MaxCalls calls, at
\* most one of them other than the plain call, at any position.
CallSeqs ==
    { cs \in UNION { [1..k -> CallChoices] : k \in 1..MaxCalls } :
        Cardinality({ i \in 1..Len(cs) : cs[i] # PlainCall }) <= 1 }

\* The collaborator numbers its tool calls with fresh identifiers.
WithIds(cs, first) ==
    [i \in 1..Len(cs) |->
        [name |-> cs[i].name, args |-> cs[i].args, id |-> first + i - 1]]

\* model.invoke(messages): an AI message (text only, or tool calls), or an
\* exception.
FreshOutcomes ==
    { [fail |-> TRUE, response |-> AIMessage("", <<>>)] }
    \cup { [fail |-> FALSE, response |-> AIMessage(t, <<>>)] : t \in {"", "163"} }
    \cup { [fail |-> FALSE, response |-> AIMessage("", WithIds(cs, nextId))] :
             cs \in CallSeqs }

\* The collaborator is a function of the transcript it is given: asked again
\* with a transcript it has seen, it answers as before.
ModelOutcomes(msgs) ==
    IF msgs \in DOMAIN memo THEN {memo[msgs]} ELSE FreshOutcomes

Remember(msgs, out) ==
    [t \in DOMAIN memo \cup {msgs} |-> IF t = msgs THEN out ELSE memo[t]]

\* ------------------------------------------------------------ the program

\* (mutant) no reducer: the node's update replaces the list
operator_add_overwrite(old, update) == update

\* AgentState.messages: Annotated[List[BaseMessage], operator.add]
operator_add(old, update) == old \o update

\* (mutant) the response is returned twice
call_model_twice(response) == [messages |-> <<response, response>>]

\* call_model: the update is the one response of the model
call_model(response) == [messages |-> <<response>>]

\* (mutant) the router always goes on to the tools
should_continue_always(msgs) == "tools"

\* should_continue: route on the last message's tool calls
should_continue(msgs) ==
    IF Len(msgs[Len(msgs)].tool_calls) > 0 THEN "tools" ELSE "END"

\* add_edge("tools", "agent")
tools_edge == "agent"

\* (mutant) the run is stopped one super-step early
OutOfSteps_early(s) == s >= RecursionLimit

\* (mutant) the run is never stopped
OutOfSteps_never(s) == FALSE

\* The engine stops a run that has executed more super-steps than the limit.
OutOfSteps(s) == s > RecursionLimit

\* Where the run goes after a super-step that routes to `target`.
AfterStep(s, target) == IF OutOfSteps(s) THEN "failed" ELSE target

AfterStepError(s) == IF OutOfSteps(s) THEN "GraphRecursionError" ELSE ""

\* (mutant) the tool subtracts
adder_minus(a, b) == a - b

\* adder(a, b)
adder(a, b) == a + b

Digits == <<"0", "1", "2", "3", "4", "5", "6", "7", "8", "9">>

IsDigit(c) == \E d \in 1..Len(Digits) : Digits[d] = c

DigitVal(c) == (CHOOSE d \in 1..Len(Digits) : Digits[d] = c) - 1

\* A string reads as an integer when it is a non-empty run of digits.
IsNumeral(chars) == Len(chars) > 0 /\ \A i \in 1..Len(chars) : IsDigit(chars[i])

RECURSIVE ParseInt(_)
ParseInt(chars) ==
    IF chars = <<>> THEN 0
    ELSE 10 * ParseInt(SubSeq(chars, 1, Len(chars) - 1))
         + DigitVal(chars[Len(chars)])

\* One argument against the annotation `int`: the schema built from the
\* signature validates leniently, so an integer passes and so does a string
\* that reads as one; any other string and a missing key fail.
ArgValid(v) == v.kind = "int" \/ (v.kind = "str" /\ IsNumeral(v.text))

\* The integer the tool function receives for a validated argument.
Coerce(v) == IF v.kind = "int" THEN v.val ELSE ParseInt(v.text)

\* The argument schema derived from adder's signature: a: int, b: int.
ValidArgs(args) == ArgValid(args.a) /\ ArgValid(args.b)

\* (mutant) the tool function runs before its arguments are validated
Executes_registered(call) == call.name \in tools

\* Does running this call execute the tool function?
Executes(call) == call.name \in tools /\ ValidArgs(call.args)

\* (mutant) every ToolMessage answers the first identifier handed out
AnswerId_first(call) == 1

\* The identifier a ToolMessage answers.
AnswerId(call) == call.id

\* (mutant) the tool's name is not checked against the registered tools
RunOne_unchecked(call) ==
    IF ~ValidArgs(call.args)
    THEN ToolMessage("Error: invalid arguments. Please fix your mistakes.",
                     AnswerId(call), call.name, "error")
    ELSE ToolMessage(ToString(adder(Coerce(call.args.a), Coerce(call.args.b))),
                     AnswerId(call), call.name, "success")

\* ToolNode: one tool call -> one ToolMessage.
RunOne(call) ==
    IF call.name \notin tools
    THEN ToolMessage("Error: " \o call.name \o " is not a valid tool, try one of [adder].",
                     AnswerId(call), call.name, "error")
    ELSE IF ~ValidArgs(call.args)
    THEN ToolMessage("Error: invalid arguments. Please fix your mistakes.",
                     AnswerId(call), call.name, "error")
    ELSE ToolMessage(ToString(adder(Coerce(call.args.a), Coerce(call.args.b))),
                     AnswerId(call), call.name, "success")

\* The tool calls ToolNode reads: those of the last message.
LastCalls == messages[Len(messages)].tool_calls

\* Indexes of the calls that have finished.
Finished(outs) == { outs[k].idx : k \in 1..Len(outs) }

\* The ToolMessage made for call i.
OutputOf(outs, i) == outs[CHOOSE k \in 1..Len(outs) : outs[k].idx = i].msg

\* (mutant) the ToolMessages are collected as the workers finish
ToolUpdate_as_completed(calls, outs) ==
    [messages |-> [k \in 1..Len(outs) |-> outs[k].msg]]

\* ToolNode's update: the ToolMessages in the order of the calls
\* (executor.map yields results in the order of its inputs).
ToolUpdate(calls, outs) ==
    [messages |-> [i \in 1..Len(calls) |-> OutputOf(outs, i)]]

\* One event of app.stream(): {node_name: state_update}
Event(node, update) == [node |-> node, update |-> update]

\* (mutant) the step that exceeds the limit raises before its event is yielded
Emit_unless_stopped(evs, node, update) ==
    IF Len(evs) + 1 > RecursionLimit THEN evs ELSE Append(evs, Event(node, update))

\* stream() yields the update of every super-step, the last one included,
\* before it raises.
Emit(evs, node, update) == Append(evs, Event(node, update))

\* (mutant) the agent node is scheduled again after the graph has ended
AgentDue_or_done == pc \in {"agent", "END"}

\* The "agent" node is due: it is the entry point and the target of the
\* edge from "tools".
AgentDue == pc = "agent"

\* ------------------------------------------------------------------- Init

\* The state in which __main__ calls app.stream(): the key check has passed
\* and the graph is compiled.
Init ==
    /\ api_key = "key"
    /\ exit_code = -1
    /\ messages = initial_state.messages
    /\ pc = "agent"
    /\ step = 0
    /\ error = ""
    /\ events = <<>>
    /\ running = {}
    /\ outputs = <<>>
    /\ execLog = <<>>
    /\ memo = <<>>
    /\ nextId = 1
    /\ run = 1
    /\ prev = <<>>

\* ---------------------------------------------------------------- actions

\* The "agent" node returns: call_model's update is merged, the event is
\* yielded, should_continue routes.
AgentReply ==
    /\ AgentDue
    /\ step < StepCap
    /\ \E out \in ModelOutcomes(messages) :
         /\ ~out.fail
         /\ LET update == call_model(out.response)
                merged == operator_add(messages, update.messages)
            IN /\ messages' = merged
               /\ events' = Emit(events, "agent", update)
               /\ step' = step + 1
               /\ pc' = AfterStep(step + 1, should_continue(merged))
               /\ error' = AfterStepError(step + 1)
               /\ memo' = Remember(messages, out)
               /\ nextId' = IF messages \in DOMAIN memo THEN nextId
                            ELSE nextId + Len(out.response.tool_calls)
    /\ execLog' = <<>>
    /\ UNCHANGED <<env, running, outputs, run, prev>>

\* (mutant) the failure is turned into an empty reply before the run stops
AgentRaise_appends ==
    /\ pc = "agent"
    /\ \E out \in ModelOutcomes(messages) :
         /\ out.fail
         /\ memo' = Remember(messages, out)
    /\ messages' = operator_add(messages, call_model(AIMessage("", <<>>)).messages)
    /\ pc' = "failed"
    /\ error' = "ModelError"
    /\ UNCHANGED <<env, step, events, running, outputs, execLog, nextId, run, prev>>

\* model.invoke raises: the exception leaves call_model and app.stream().
AgentRaise ==
    /\ AgentDue
    /\ \E out \in ModelOutcomes(messages) :
         /\ out.fail
         /\ memo' = Remember(messages, out)
    /\ pc' = "failed"
    /\ error' = "ModelError"
    /\ UNCHANGED <<env, messages, step, events, running, outputs, execLog, nextId,
                   run, prev>>

\* A pool worker takes up one tool call of the last message.
ToolStart ==
    /\ pc = "tools"
    /\ \E i \in 1..Len(LastCalls) :
         /\ i \notin running
         /\ i \notin Finished(outputs)
         /\ running' = running \cup {i}
    /\ UNCHANGED <<env, messages, pc, step, error, events, outputs, execLog, memo,
                   nextId, run, prev>>

\* (mutant) a worker that has its result stays busy
Release_never(busy, i) == busy

\* A worker that has its result leaves the pool.
Release(busy, i) == busy \ {i}

\* The worker validates the call, runs the tool and has its ToolMessage.
ToolFinish ==
    /\ pc = "tools"
    /\ \E i \in running :
         /\ running' = Release(running, i)
         /\ outputs' = Append(outputs, [idx |-> i, msg |-> RunOne(LastCalls[i])])
         /\ execLog' = IF Executes(LastCalls[i])
                       THEN Append(execLog, LastCalls[i].id)
                       ELSE execLog
    /\ UNCHANGED <<env, messages, pc, step, error, events, memo, nextId, run, prev>>

\* All workers are back: the "tools" node returns its update.
ToolsReturn ==
    /\ pc = "tools"
    /\ step < StepCap
    /\ Finished(outputs) = 1..Len(LastCalls)
    /\ LET update == ToolUpdate(LastCalls, outputs)
       IN /\ messages' = operator_add(messages, update.messages)
          /\ events' = Emit(events, "tools", update)
    /\ step' = step + 1
    /\ pc' = AfterStep(step + 1, tools_edge)
    /\ error' = AfterStepError(step + 1)
    /\ outputs' = <<>>
    /\ UNCHANGED <<env, running, execLog, memo, nextId, run, prev>>

Next == AgentReply \/ AgentRaise \/ ToolStart \/ ToolFinish \/ ToolsReturn

Spec == Init /\ [][Next]_vars

\* Every model call and every tool call returns, and the engine goes on to
\* the next super-step.
FairSpec == Init /\ [][Next]_vars /\ WF_vars(Next)

\* The same input is run again against the same collaborators.
Replay ==
    /\ run = 1
    /\ pc \in {"END", "failed"}
    /\ prev' = [messages |-> messages, events |-> events, pc |-> pc,
                error |-> error]
    /\ run' = 2
    /\ messages' = initial_state.messages
    /\ pc' = "agent"
    /\ step' = 0
    /\ error' = ""
    /\ events' = <<>>
    /\ running' = {}
    /\ outputs' = <<>>
    /\ execLog' = <<>>
    /\ UNCHANGED <<env, memo, nextId>>

ReplayNext == Next \/ Replay

ReplaySpec == Init /\ [][ReplayNext]_vars

\* The values os.getenv("GOOGLE_API_KEY") can have: None when the variable
\* is not set, the empty string, or a key.
KeyValues == {"<unset>", "", "key"}

\* (mutant) the check is skipped
KeyMissing_never(value) == FALSE

\* `if not os.getenv("GOOGLE_API_KEY")`: None and "" are both falsy.
KeyMissing(value) == value = "<unset>" \/ value = ""

\* The module is being loaded: nothing is built yet.
GateInit ==
    /\ api_key \in KeyValues
    /\ exit_code = -1
    /\ messages = <<>>
    /\ pc = "startup"
    /\ step = 0
    /\ error = ""
    /\ events = <<>>
    /\ running = {}
    /\ outputs = <<>>
    /\ execLog = <<>>
    /\ memo = <<>>
    /\ nextId = 1
    /\ run = 1
    /\ prev = <<>>

\* Lines 15-18: without a key the process exits with status 1; with one, the
\* rest of the module runs: the graph is built and __main__ starts the run.
CheckKey ==
    /\ pc = "startup"
    /\ IF KeyMissing(api_key)
       THEN /\ pc' = "exited"
            /\ exit_code' = 1
            /\ messages' = messages
       ELSE /\ pc' = "agent"
            /\ exit_code' = exit_code
            /\ messages' = initial_state.messages
    /\ UNCHANGED <<api_key, step, error, events, running, outputs, execLog,
                   memo, nextId, run, prev>>

GateNext == CheckKey \/ Next

GateSpec == GateInit /\ [][GateNext]_vars

\* ------------------------------------------------------ transcript helpers

Last(s) == s[Len(s)]

IsAI(m) == m.type = "ai"
IsTool(m) == m.type = "tool"
IsHuman(m) == m.type = "human"
HasCalls(m) == IsAI(m) /\ Len(m.tool_calls) > 0

IsPrefix(s, t) == Len(s) <= Len(t) /\ \A i \in 1..Len(s) : s[i] = t[i]

\* Index of the nearest AI message before position i (0 if there is none).
ReplyBefore(msgs, i) ==
    LET js == { j \in 1..(i - 1) : IsAI(msgs[j]) }
    IN IF js = {} THEN 0 ELSE CHOOSE j \in js : \A k \in js : k <= j

\* Replies with tool calls in the transcript = Decide->Act cycles begun.
NumCallReplies(msgs) == Cardinality({ i \in 1..Len(msgs) : HasCalls(msgs[i]) })

Halted == pc \in {"END", "failed"}

\* A Decide step that appended a reply / an Act step that returned.
DecideStep == pc = "agent" /\ Len(messages') = Len(messages) + 1
ActStep == pc = "tools" /\ step' = step + 1

StoppedByLimit == pc' = "failed" /\ error' = "GraphRecursionError"

\* ------------------------------------------------------------------ claims

\* C1 (as stated): from Deciding with one Human message every run goes
\* Decide, (Act, Decide)*: a Decide whose reply has tool calls is followed by
\* Act, an Act is followed by Decide, and the run is Done exactly when a
\* Decide appends a reply without tool calls.
C1_AsStated ==
    /\ pc = "agent" /\ Len(messages) = 1 /\ IsHuman(messages[1])
    /\ [][ /\ (DecideStep /\ HasCalls(Last(messages'))) => pc' = "tools"
           /\ ActStep => pc' = "agent"
           /\ (DecideStep /\ ~HasCalls(Last(messages'))) => pc' = "END"
           /\ (pc # "END" /\ pc' = "END") =>
                 (DecideStep /\ ~HasCalls(Last(messages'))) ]_vars

\* C1 (amended): the same alternation, except that a step which exceeds the
\* engine's recursion limit is followed by the GraphRecursionError failure
\* instead of the next node; Done is entered only by a Decide step whose
\* reply has no tool calls, and such a Decide enters Done unless the limit
\* stops the run.
C1_Alternation ==
    /\ pc = "agent" /\ Len(messages) = 1 /\ IsHuman(messages[1])
    /\ [][ /\ (DecideStep /\ HasCalls(Last(messages'))) =>
                 (pc' = "tools" \/ (StoppedByLimit /\ OutOfSteps(step')))
           /\ ActStep =>
                 (pc' = "agent" \/ (StoppedByLimit /\ OutOfSteps(step')))
           /\ (DecideStep /\ ~HasCalls(Last(messages'))) =>
                 (pc' = "END" \/ (StoppedByLimit /\ OutOfSteps(step')))
           /\ (pc # "END" /\ pc' = "END") =>
                 (DecideStep /\ ~HasCalls(Last(messages'))) ]_vars

\* A run that went Decide, Act, Decide and is Done.
C1_Witness ==
    /\ pc = "END"
    /\ Len(events) = 3
    /\ events[1].node = "agent" /\ events[2].node = "tools"
    /\ events[3].node = "agent"

\* C2: every ToolMessage in the transcript answers a tool call of the nearest
\* AI message before it, with only ToolMessages in between, that no earlier
\* ToolMessage has answered; and the ToolMessage made for a call to a
\* registered tool carries that call's identifier.
C2_ResultIds ==
    /\ \A i \in 1..Len(messages) :
         IsTool(messages[i]) =>
           LET j == ReplyBefore(messages, i)
           IN /\ j > 0
              /\ \A k \in (j + 1)..(i - 1) : IsTool(messages[k])
              /\ \E c \in 1..Len(messages[j].tool_calls) :
                   /\ messages[j].tool_calls[c].id = messages[i].tool_call_id
                   /\ \A k \in (j + 1)..(i - 1) :
                        messages[k].tool_call_id # messages[i].tool_call_id
    /\ pc = "tools" =>
         \A k \in 1..Len(outputs) :
           LastCalls[outputs[k].idx].name \in tools =>
             outputs[k].msg.tool_call_id = LastCalls[outputs[k].idx].id

\* Two calls of one reply, the second to the registered tool, both answered.
C2_Witness ==
    /\ Len(messages) >= 4
    /\ Len(messages[2].tool_calls) = 2
    /\ messages[2].tool_calls[2].name \in tools
    /\ IsTool(messages[4])
    /\ messages[4].tool_call_id = messages[2].tool_calls[2].id

\* The reply a tool call identifier belongs to, and its place in that reply.
ReplyOf(id) ==
    CHOOSE j \in 1..Len(messages) :
        \E c \in 1..Len(messages[j].tool_calls) : messages[j].tool_calls[c].id = id

PosOf(id) ==
    CHOOSE c \in 1..Len(messages[ReplyOf(id)].tool_calls) :
        messages[ReplyOf(id)].tool_calls[c].id = id

CallOf(id) == messages[ReplyOf(id)].tool_calls[PosOf(id)]

\* Every reply with tool calls that has been acted on is followed by one
\* ToolMessage per call, in the order of the calls.
ResultsInOrder(msgs, last) ==
    \A j \in 1..last :
        HasCalls(msgs[j]) =>
            /\ j + Len(msgs[j].tool_calls) <= Len(msgs)
            /\ \A i \in 1..Len(msgs[j].tool_calls) :
                 /\ IsTool(msgs[j + i])
                 /\ msgs[j + i].tool_call_id = msgs[j].tool_calls[i].id

C4_AppendOnly == [][IsPrefix(messages, messages')]_vars

\* Decide and Act have appended and a failing step has left the transcript.
C4_Witness ==
    /\ pc = "failed"
    /\ Len(messages) >= 4
    /\ IsTool(Last(messages))

\* max_cycles: the Decide->Act cycles the recursion limit leaves room for
\* before a final Decide (a run of N cycles and a final reply takes 2N+1
\* super-steps).
MaxCycles == (RecursionLimit - 1) \div 2

OneCallPerReply(msgs) ==
    \A i \in 1..Len(msgs) : HasCalls(msgs[i]) => Len(msgs[i].tool_calls) = 1

\* C5: N <= max_cycles replies with exactly one tool call each, then a reply
\* without tool calls: the run is Done and the transcript has 1 + 2N + 1
\* messages (N = 0: two messages).
C5_Length ==
    LET N == NumCallReplies(messages)
    IN (/\ OneCallPerReply(messages)
        /\ IsAI(Last(messages)) /\ ~HasCalls(Last(messages))
        /\ N <= MaxCycles)
       => (pc = "END" /\ Len(messages) = 1 + 2 * N + 1)

\* max_cycles cycles of one call each, then the final reply.
C5_Witness ==
    /\ pc = "END"
    /\ OneCallPerReply(messages)
    /\ NumCallReplies(messages) = MaxCycles
    /\ MaxCycles >= 1
    /\ Len(messages) = 2 * MaxCycles + 2

\* What the caller of app.stream() holds: its own input and the updates of
\* the events it was handed.
RECURSIVE Flatten(_)
Flatten(evs) ==
    IF evs = <<>> THEN <<>>
    ELSE evs[1].update.messages \o Flatten(Tail(evs))

Streamed == initial_state.messages \o Flatten(events)

\* The model has asked for tools once more after max_cycles cycles.
PastMaxCycles == NumCallReplies(messages) > MaxCycles

C7_Terminates ==
    /\ [](step <= RecursionLimit + 1)
    /\ <>Halted

\* A model that asks for tools on every Decide step has been stopped.
C7_Witness ==
    /\ Halted
    /\ step = RecursionLimit + 1
    /\ \A i \in 1..Len(messages) : IsAI(messages[i]) => HasCalls(messages[i])
    /\ NumCallReplies(messages) >= 2

\* C8: a replay of the same input against the same deterministic model and
\* tools goes through the same nodes and ends with the same transcript.
C8_Deterministic ==
    run = 2 =>
        /\ IsPrefix(messages, prev.messages)
        /\ IsPrefix(events, prev.events)
        /\ Halted => /\ messages = prev.messages
                     /\ events = prev.events
                     /\ pc = prev.pc
                     /\ error = prev.error

\* A replay whose workers ran two calls in the other order has ended.
C8_Witness ==
    /\ run = 2
    /\ Halted
    /\ Len(messages) >= 4
    /\ Len(execLog) = 2
    /\ PosOf(execLog[1]) = 2
    /\ messages = prev.messages

\* The model's first reply in the addition scenario.
ScenarioCall(m) ==
    /\ IsAI(m)
    /\ Len(m.tool_calls) = 1
    /\ m.tool_calls[1].name = "adder"
    /\ m.tool_calls[1].args = [a |-> IntV(55), b |-> IntV(108)]

\* C9: "What's 55 + 108", a first reply calling adder(a=55, b=108), a second
\* reply "163" without tool calls: the run is Done with exactly
\* [Human, reply(adder call), ToolMessage "163", reply "163"].
C9_Addition ==
    (/\ messages[1] = HumanMessage("What's 55 + 108")
     /\ Len(messages) >= 2
     /\ ScenarioCall(messages[2]))
    => /\ Len(messages) >= 3 =>
            messages[3] = ToolMessage("163", messages[2].tool_calls[1].id,
                                      "adder", "success")
       /\ (Len(messages) >= 4 /\ messages[4] = AIMessage("163", <<>>)) =>
            /\ pc = "END"
            /\ Len(messages) = 4

C9_Witness ==
    /\ pc = "END"
    /\ Len(messages) = 4
    /\ ScenarioCall(messages[2])
    /\ messages[3].content = "163"
    /\ messages[4] = AIMessage("163", <<>>)

UnknownIn(calls) == \E i \in 1..Len(calls) : calls[i].name \notin tools

\* The Act step answers every call of the reply, an unknown tool with an
\* error message that carries the call's identifier.
UnknownAnswered ==
    /\ Len(messages') = Len(messages) + Len(LastCalls)
    /\ \A i \in 1..Len(LastCalls) :
         /\ IsTool(messages'[Len(messages) + i])
         /\ messages'[Len(messages) + i].tool_call_id = LastCalls[i].id
         /\ LastCalls[i].name \notin tools =>
              messages'[Len(messages) + i].status = "error"
         /\ LastCalls[i] = PlainCall =>
              messages'[Len(messages) + i].status = "success"
    /\ \A p \in 1..Len(execLog) : CallOf(execLog[p]).name \in tools
    /\ error' \in {"", "GraphRecursionError"}

\* C10 (as stated): a call to an unknown tool does not abort the run: the Act
\* step appends an error ToolMessage with the call's identifier, processes
\* the other calls, and the controller goes to Deciding.
C10_AsStated ==
    [][(ActStep /\ UnknownIn(LastCalls)) =>
          (UnknownAnswered /\ pc' = "agent")]_vars

\* C10 (amended): the same, and the controller goes to Deciding unless this
\* Act step is the super-step that exceeds the recursion limit, after which
\* the run stops with GraphRecursionError as it does after any Act step.
C10_UnknownTool ==
    [][(ActStep /\ UnknownIn(LastCalls)) =>
          /\ UnknownAnswered
          /\ ~OutOfSteps(step') => (pc' = "agent" /\ error' = "")
          /\ OutOfSteps(step') => StoppedByLimit]_vars

\* After a reply that named an unknown tool first and the plain call second,
\* the model is asked again with both answers in the transcript.
C10_Witness ==
    /\ pc = "agent"
    /\ Len(messages) = 4
    /\ messages[2].tool_calls[1].name = "multiplier"
    /\ messages[3].status = "error"
    /\ messages[4].status = "success"

\* A call to a registered tool whose a or b is missing or not an integer.
NotAllIntegers(call) ==
    /\ call.name \in tools
    /\ (call.args.a.kind # "int" \/ call.args.b.kind # "int")

\* A call to a registered tool whose arguments fail the tool's schema.
SchemaFails(call) == call.name \in tools /\ ~ValidArgs(call.args)

\* Call i of the reply was not executed and is answered with an error
\* ToolMessage that carries its identifier.
AnsweredWithError(i) ==
    /\ \A p \in 1..Len(execLog) : execLog[p] # LastCalls[i].id
    /\ Len(messages') >= Len(messages) + i
    /\ IsTool(messages'[Len(messages) + i])
    /\ messages'[Len(messages) + i].status = "error"
    /\ messages'[Len(messages) + i].tool_call_id = LastCalls[i].id

\* C11 (as stated): a call to a registered tool with a missing or non-integer
\* a or b does not execute the tool and does not abort the run: an error
\* ToolMessage with the call's identifier is appended and the controller
\* continues to Deciding.
C11_AsStated ==
    [][ActStep =>
         \A i \in 1..Len(LastCalls) :
            NotAllIntegers(LastCalls[i]) =>
               (AnsweredWithError(i) /\ pc' = "agent")]_vars

\* C11 (amended): a call whose arguments fail the schema (a missing a or b,
\* or a value that does not read as an integer) is not executed and is
\* answered with an error ToolMessage carrying its identifier, and the
\* controller continues to Deciding unless this Act step is the super-step
\* that exceeds the recursion limit; a string that reads as an integer passes
\* the schema, is converted, and the tool runs.
C11_InvalidArgs ==
    [][ActStep =>
         \A i \in 1..Len(LastCalls) :
            /\ SchemaFails(LastCalls[i]) =>
                 /\ AnsweredWithError(i)
                 /\ ~OutOfSteps(step') => (pc' = "agent" /\ error' = "")
                 /\ OutOfSteps(step') => StoppedByLimit
            /\ (NotAllIntegers(LastCalls[i]) /\ ~SchemaFails(LastCalls[i])) =>
                 /\ \E p \in 1..Len(execLog) : execLog[p] = LastCalls[i].id
                 /\ messages'[Len(messages) + i] =
                      ToolMessage("163", LastCalls[i].id, "adder", "success")]_vars

\* A reply asked for adder with a missing b, then for the plain call: both
\* are answered and the model is asked again.
C11_Witness ==
    /\ pc = "agent"
    /\ Len(messages) = 4
    /\ Len(messages[2].tool_calls) = 2
    /\ messages[2].tool_calls[1].name = "adder"
    /\ messages[2].tool_calls[1].args.b = MissingV
    /\ messages[3].status = "error"
    /\ messages[3].tool_call_id = messages[2].tool_calls[1].id
    /\ messages[4].status = "success"
    /\ execLog = <<messages[2].tool_calls[2].id>>

\* The model collaborator failed in this step.
ModelFailed == error = "" /\ error' = "ModelError"

\* C12: when model.invoke fails in a Decide step the run aborts at once:
\* nothing is appended, no event is yielded, no step is counted, nothing runs
\* afterwards (no further Decide or Act, no retry), and the transcript the
\* caller holds is the transcript as it was before the failed step.
C12_ModelFailure ==
    [][ /\ ModelFailed =>
            /\ pc = "agent" /\ pc' = "failed"
            /\ messages' = messages
            /\ events' = events
            /\ step' = step
            /\ Streamed' = messages
        /\ error # "ModelError" ]_vars

\* The model failed on its second Decide step, after one full cycle.
C12_Witness ==
    /\ pc = "failed"
    /\ error = "ModelError"
    /\ Len(messages) >= 3
    /\ IsTool(Last(messages))
    /\ Streamed = messages

C14_DoneTerminal ==
    /\ [][pc # "END"]_vars
    /\ [](pc = "END" =>
            /\ Streamed = messages
            /\ error = ""
            /\ running = {} /\ outputs = <<>>)

\* A run is Done after a full cycle.
C14_Witness ==
    /\ pc = "END"
    /\ Len(messages) = 4
    /\ Streamed = messages

\* The model collaborator was invoked in this step: it has answered for a
\* transcript it had not been asked about.
ModelInvoked == memo' # memo

\* A tool call was taken up or finished in this step.
ToolInvoked == running' # running \/ outputs' # outputs \/ execLog' # execLog

\* C15: a successful Decide step appends exactly one message, an AI reply,
\* and invokes no tool; an Act step appends exactly one ToolMessage per tool
\* call of the latest reply, nothing else, and does not invoke the model.
C15_Frames ==
    [][ /\ (pc = "agent" /\ error' # "ModelError") =>
             /\ Len(messages') = Len(messages) + 1
             /\ IsPrefix(messages, messages')
             /\ IsAI(Last(messages'))
             /\ running' = running /\ outputs' = outputs /\ execLog' = <<>>
        /\ pc = "tools" => ~ModelInvoked
        /\ (pc = "tools" /\ ~ActStep) => messages' = messages
        /\ ActStep =>
             /\ Len(messages') = Len(messages) + Len(Last(messages).tool_calls)
             /\ IsPrefix(messages, messages')
             /\ \A i \in (Len(messages) + 1)..Len(messages') :
                  IsTool(messages'[i]) ]_vars

\* An Act step has appended two ToolMessages after a two-call reply.
C15_Witness ==
    /\ pc = "agent"
    /\ Len(messages) = 4
    /\ Len(messages[2].tool_calls) = 2
    /\ IsTool(messages[3]) /\ IsTool(messages[4])

\* Number of ToolMessages in the transcript that answer this identifier.
Answers(id) ==
    Cardinality({ i \in 1..Len(messages) :
                    IsTool(messages[i]) /\ messages[i].tool_call_id = id })

\* C16: in the transcript of a run that is Done every tool call of every
\* reply is answered by exactly one ToolMessage, a reply with k >= 1 calls
\* is immediately followed by exactly k ToolMessages, and the last message
\* is a reply without tool calls.
C16_DoneTranscript ==
    pc = "END" =>
        /\ IsAI(Last(messages)) /\ ~HasCalls(Last(messages))
        /\ \A j \in 1..Len(messages) :
             HasCalls(messages[j]) =>
               LET k == Len(messages[j].tool_calls)
               IN /\ j + k < Len(messages)
                  /\ \A i \in 1..k : IsTool(messages[j + i])
                  /\ ~IsTool(messages[j + k + 1])
                  /\ \A c \in 1..k : Answers(messages[j].tool_calls[c].id) = 1
                  /\ \A c \in 1..k : \E i \in 1..k :
                       messages[j + i].tool_call_id = messages[j].tool_calls[c].id
        /\ \A i \in 1..Len(messages) :
             IsTool(messages[i]) => ReplyBefore(messages, i) > 0

\* Done after a reply with two calls.
C16_Witness ==
    /\ pc = "END"
    /\ Len(messages) = 5
    /\ Len(messages[2].tool_calls) = 2

\* The router ran in this step: the run went on to the tools or ended.
Routed == pc' # pc /\ pc' \in {"tools", "END"}

\* C17: the transcript is never empty, starts with the initial Human
\* message and holds no other Human message; and the router, which reads
\* the last message, only runs right after a Decide step, when that message
\* is an AI reply.
C17_HumanFirst ==
    /\ [](/\ Len(messages) >= 1
          /\ messages[1] = HumanMessage(user_input)
          /\ \A i \in 2..Len(messages) : ~IsHuman(messages[i]))
    /\ [][Routed => (DecideStep /\ IsAI(Last(messages')))]_vars

\* The router has run twice.
C17_Witness ==
    /\ pc = "END"
    /\ Len(messages) >= 4
    /\ NumCallReplies(messages) = 1

\* The latest AI reply of the transcript (the first message if there is none).
LatestReply == messages[IF ReplyBefore(messages, Len(messages) + 1) = 0 THEN 1
                        ELSE ReplyBefore(messages, Len(messages) + 1)]

\* C18: in Acting the last message is a reply with at least one tool call;
\* a tool function only runs for a call of the latest reply that names a
\* registered tool, and at most once for each call.
C18_ToolsOnRequest ==
    /\ pc = "tools" => HasCalls(Last(messages))
    /\ running # {} => pc = "tools"
    /\ \A p \in 1..Len(execLog) :
         \E c \in 1..Len(LatestReply.tool_calls) :
            /\ LatestReply.tool_calls[c].id = execLog[p]
            /\ LatestReply.tool_calls[c].name \in tools
    /\ \A p, q \in 1..Len(execLog) : execLog[p] = execLog[q] => p = q

\* Both calls of a reply have run, each once.
C18_Witness ==
    /\ pc = "tools"
    /\ Len(LastCalls) = 2
    /\ Len(execLog) = 2

\* C19: without a GOOGLE_API_KEY the process exits with status 1 before the
\* graph is built: the model and the tools are never invoked and no run
\* starts; a run only starts after the key check has passed.
C19_Gate ==
    /\ KeyMissing(api_key) =>
         /\ pc \in {"startup", "exited"}
         /\ messages = <<>> /\ events = <<>>
         /\ memo = <<>> /\ execLog = <<>> /\ running = {} /\ step = 0
    /\ pc = "exited" <=> exit_code = 1
    /\ pc = "exited" => KeyMissing(api_key)
    /\ exit_code \in {-1, 1}
    /\ pc \notin {"startup", "exited"} =>
         (api_key = "key" /\ Len(messages) >= 1)

\* The variable was set but empty, and the process has exited.
C19_Witness ==
    /\ pc = "exited"
    /\ exit_code = 1
    /\ api_key = ""

====
